---- MODULE Spec2Model ----
(***************************************************************************)
(* A model of the "Wave Function Collapse" solver of src/waves:            *)
(* the Grid container (creation, addressing, neighbor enumeration),        *)
(* propagate, solve, the two grid predicates and the weighted shuffle of   *)
(* util.py.                                                                *)
(*                                                                         *)
(* Python objects that are shared by reference are kept on small heaps:    *)
(*   grids[k]  is the grid argument of the k-th nested solve call and, at  *)
(*             the same time, the `partial` of the call that made it;      *)
(*   pends[k]  is the pending list argument of the k-th nested solve call  *)
(*             and the local `pending` (the unpacked rest) of its caller.  *)
(* Cell indices, coordinates and list indices are 0-based as in Python;    *)
(* a grid's contents is a function on 0 .. width*height-1.  A cell's       *)
(* domain is a value: initialize is taken to return a fresh set per cell,  *)
(* as main's does, so that no two cells share one set object.              *)
(***************************************************************************)
EXTENDS Integers, Sequences, FiniteSets, TLC

\* ---------------------------------------------------------------- bounds

\* Grids of the solver runs have at most MaxCells cells.
MaxCells == 6

\* Grids of the direct propagate runs have at most MaxPropCells cells.
MaxPropCells == 4

\* Grids of the Grid-container runs have sides of at most MaxSide.
MaxSide == 4

\* Weight lists of the shuffle runs: at most MaxLen weights, each 0 .. MaxWeight.
MaxLen == 3

MaxWeight == 2

\* The label universe of the runs.
Labels == {"A", "B"}

VARIABLES
    \* --- the grid object being built / queried (Grid-container runs)
    width,       \* Grid.width
    height,      \* Grid.height
    initialize,  \* Grid.initialize, as a table: <<x, y>> -> domain
    contents,    \* Grid.contents of the grid under construction
    gpc,         \* "new" before __post_init__, "ready" after, "idle" when unused
    query,       \* the last method call made on the grid, with its arguments
    yielded,     \* what that call returned (neighbors_of: the yielded sequence)
    \* --- solve
    rules,       \* the rule table: label -> set of labels
    grids,       \* heap of grids, see above
    pends,       \* heap of pending lists, see above
    frames,      \* the call stack of solve: records [at, candidates, i, pc]
    ret,         \* the value returned by the solve call that returned last
    grid0,       \* the grid as given to the outermost call
    pending0,    \* the pending list as given to the outermost call
    \* --- the observer (callback), as solve's caller sees it
    calls,       \* how often callback has been invoked
    seen,        \* the grid it was handed last
    oks,         \* how often solve has taken a propagate result for true
    \* --- propagate (at most one call is active at a time)
    stack,       \* the work stack
    pat,         \* `at` of propagate: the index popped last
    domain,      \* `domain` of propagate, computed at the pop
    todo,        \* what the neighbors_of generator has still to yield
    ppc,         \* "idle", "while" (at the pop), "for" (in the neighbor loop),
                 \* "True" / "False" (returned that value)
    before,      \* the grid as it was when propagate was called
    root,        \* the `changed` argument of the propagate call
    pushes,      \* stack.append calls of the propagate call (line 114)
    \* --- shuffle_weighted_indices
    weights,     \* the local copy of the weights
    emitted,     \* the indices yielded so far
    round,       \* iterations of the for loop started so far
    spc          \* "idle", "loop", "done", "ValueError"

vars == <<width, height, initialize, contents, gpc, query, yielded,
          rules, grids, pends, frames, ret, grid0, pending0,
          calls, seen, oks,
          stack, pat, domain, todo, ppc, before, root, pushes,
          weights, emitted, round, spc>>

gridVars == <<initialize, contents, gpc, query, yielded>>
solveVars == <<rules, grids, pends, frames, ret, grid0, pending0, calls, seen, oks>>
obsVars == <<calls, seen, oks>>
propVars == <<stack, pat, domain, todo, ppc, before, root, pushes>>
shuffleVars == <<weights, emitted, round, spc>>

\* ---------------------------------------------------------------- helpers

\* range(n) as a sequence: <<0, ..., n-1>>
Range(n) == [k \in 1..n |-> k - 1]

Reverse(s) == [k \in 1..Len(s) |-> s[Len(s) + 1 - k]]

Front(s) == SubSeq(s, 1, Len(s) - 1)

Last(s) == s[Len(s)]

Elems(s) == {s[k] : k \in 1..Len(s)}

\* All orders of the elements of a finite set.
Orders(S) ==
    {s \in [1..Cardinality(S) -> S] : \A a, b \in 1..Cardinality(S) : s[a] = s[b] => a = b}

\* ---------------------------------------------------------------- util.py

\* union(sets): set().union(*sets)
union(sets) == UNION sets

\* No value: Python's None for an index, and an unbound local.
NoIndex == -1

\* `while at := pop(stack):` in place of `is not None`: index 0 ends the loop.
pop_falsy(s) == IF s = <<>> \/ Last(s) = 0 THEN NoIndex ELSE Last(s)

\* pop(stack): the last element, or None when the stack is empty ...
pop(s) == IF s = <<>> THEN NoIndex ELSE Last(s)

\* ... and the stack it leaves.
popped(s) == IF s = <<>> THEN s ELSE Front(s)

\* any(iterable) over a list of booleans
RECURSIVE any(_)
any(bools) ==
    IF bools = <<>> THEN FALSE
    ELSE IF Head(bools) THEN TRUE ELSE any(Tail(bools))

\* ---------------------------------------------------------------- Grid

\* The coordinates of a w x h grid.
Coords(w, h) == (0..(w - 1)) \X (0..(h - 1))

\* Every initialize(x, y) of a w x h grid.
Initializers(w, h) == [Coords(w, h) -> SUBSET Labels]

\* The initialisers that give column 0 one domain and every other column
\* another (main's own, line 195, is the uniform one with all labels).
ColumnInitializers(w, h) ==
    {[xy \in Coords(w, h) |-> IF xy[1] = 0 THEN first ELSE rest] :
        first \in SUBSET Labels, rest \in SUBSET Labels}

\* Grid.__post_init__: [initialize(x, y) for x in range(width) for y in range(height)].
\* The comprehension's k-th element (0-based) has x = k // height, y = k % height.
PostInit(w, h, f) ==
    [k \in 0..(w * h - 1) |-> f[<<k \div h, k % h>>]]

\* Grid.mangle
mangle(x, y) == (x % width) + (y % height) * width

\* lines 65 with self.height in place of self.width.
unmangle_by_height(i) == <<i % height, i \div height>>

\* Grid.unmangle
unmangle(i) == <<i % width, i \div width>>

\* The (dx, dy) pairs in the order of the two nested range(-1, +2) loops.
Offsets ==
    [k \in 1..9 |-> <<((k - 1) \div 3) - 1, ((k - 1) % 3) - 1>>]

\* Grid.neighbors_of with range(-1, +1) for both loops: offsets -1 and 0 only.
neighbors_of_short(i) ==
    LET xy == unmangle(i)
        x == xy[1]
        y == xy[2]
        Yields(o) ==
            /\ o[1] < 1 /\ o[2] < 1
            /\ ~(o[1] = 0 /\ o[2] = 0)
            /\ 0 <= x + o[1] /\ x + o[1] < width
            /\ 0 <= y + o[2] /\ y + o[2] < height
        kept == SelectSeq(Offsets, Yields)
    IN  [k \in 1..Len(kept) |-> mangle(x + kept[k][1], y + kept[k][2])]

\* Grid.neighbors_of with the bound test left out: every offset is mangled.
neighbors_of_wrapping(i) ==
    LET xy == unmangle(i)
        Other(o) == ~(o[1] = 0 /\ o[2] = 0)
        kept == SelectSeq(Offsets, Other)
    IN  [k \in 1..Len(kept) |-> mangle(xy[1] + kept[k][1], xy[2] + kept[k][2])]

\* Grid.neighbors_of: the sequence the generator yields.
neighbors_of(i) ==
    LET xy == unmangle(i)
        x == xy[1]
        y == xy[2]
        Yields(o) ==
            /\ ~(o[1] = 0 /\ o[2] = 0)
            /\ 0 <= x + o[1] /\ x + o[1] < width
            /\ 0 <= y + o[2] /\ y + o[2] < height
        kept == SelectSeq(Offsets, Yields)
    IN  [k \in 1..Len(kept) |-> mangle(x + kept[k][1], y + kept[k][2])]

\* ---------------------------------------------------------------- predicates

\* Grid.__iter__: the cells in index order.
iter(grid) == [k \in 1..Cardinality(DOMAIN grid) |-> grid[k - 1]]

\* has_contradictions: any(not cell for cell in grid)
has_contradictions(grid) ==
    any([k \in 1..Len(iter(grid)) |-> iter(grid)[k] = {}])

\* is_fully_collapsed: not any(len(cell) > 1 for cell in grid)
is_fully_collapsed(grid) ==
    ~any([k \in 1..Len(iter(grid)) |-> Cardinality(iter(grid)[k]) > 1])

\* ---------------------------------------------------------------- propagate

\* line 105: domain = union(rules[candidate] for candidate in grid[at])
allowed(grid, i) == union({rules[candidate] : candidate \in grid[i]})

\* line 110 with `- domain` left out: every non-empty neighbor is visited.
outside_any(cell, dom) == cell

\* line 110: grid[neighbor] - domain
outside(cell, dom) == cell \ dom

\* line 113 with |= in place of &=.
restrict_or(cell, dom) == cell \cup dom

\* line 113: grid[neighbor] &= domain
restrict(cell, dom) == cell \cap dom

\* line 116 with the test dropped: the empty neighbor is never noticed.
falsy_never(cell) == FALSE

\* line 116: not grid[neighbor]
falsy(cell) == cell = {}

\* The grid propagate works on: the newest grid of the heap.
Top == Len(grids)

\* What propagate's return leaves of its locals.
PropLocalsGone ==
    /\ stack' = <<>>
    /\ pat' = NoIndex
    /\ domain' = {}
    /\ todo' = <<>>

\* The caller's frame once propagate has returned: solve waits at its `if`.
PropReturnsTo ==
    IF frames = <<>> THEN frames
    ELSE [frames EXCEPT ![Len(frames)].pc = "if"]

\* lines 104-105 and 119: pop the stack; None ends the loop and returns True.
PropPop ==
    /\ ppc = "while"
    /\ IF pop(stack) = NoIndex
       THEN /\ ppc' = "True"
            /\ PropLocalsGone
            /\ frames' = PropReturnsTo
       ELSE /\ pat' = pop(stack)
            /\ stack' = popped(stack)
            /\ domain' = allowed(grids[Top], pop(stack))
            /\ todo' = neighbors_of(pop(stack))
            /\ ppc' = "for"
            /\ frames' = frames
    /\ UNCHANGED <<width, height, gridVars, shuffleVars, obsVars>>
    /\ UNCHANGED <<rules, grids, pends, ret, grid0, pending0, before, root, pushes>>

\* lines 107-117: one turn of the neighbor loop.
PropVisit ==
    /\ ppc = "for"
    /\ IF todo = <<>>
       THEN \* the generator is exhausted: back to the while
            /\ ppc' = "while"
            /\ UNCHANGED <<grids, stack, pat, domain, todo, frames, pushes>>
       ELSE LET neighbor == Head(todo)
                cell == grids[Top][neighbor]
                shrunk == restrict(cell, domain)
            IN  IF outside(cell, domain) = {}
                THEN \* line 110-111: continue
                     /\ todo' = Tail(todo)
                     /\ UNCHANGED <<grids, stack, pat, domain, ppc, frames, pushes>>
                ELSE /\ grids' = [grids EXCEPT ![Top][neighbor] = shrunk]
                     /\ pushes' = pushes + 1
                     /\ IF falsy(shrunk)
                        THEN /\ ppc' = "False"
                             /\ PropLocalsGone
                             /\ frames' = PropReturnsTo
                        ELSE /\ stack' = Append(stack, neighbor)
                             /\ todo' = Tail(todo)
                             /\ UNCHANGED <<pat, domain, ppc, frames>>
    /\ UNCHANGED <<width, height, gridVars, shuffleVars, obsVars>>
    /\ UNCHANGED <<rules, pends, ret, grid0, pending0, before, root>>

\* A direct call propagate(grid, root, rules) (line 102: stack = [root]).
PropCall ==
    /\ frames = <<>>
    /\ grids # <<>>
    /\ ppc = "idle"
    /\ \E changed \in DOMAIN grids[Top] :
          /\ stack' = <<changed>>
          /\ root' = changed
          /\ ppc' = "while"
          /\ before' = grids[Top]
          /\ pushes' = 0
          /\ UNCHANGED <<pat, domain, todo>>
    /\ UNCHANGED <<width, height, gridVars, shuffleVars, solveVars>>

\* ---------------------------------------------------------------- solve

\* The return values of solve.
NoRet == [tag |-> "running", value |-> <<>>]

None == [tag |-> "None", value |-> <<>>]

Solved(grid) == [tag |-> "grid", value |-> grid]

\* list.sort is stable: the i-th element lands one place past the elements
\* with a smaller key and those with an equal key that came before it.
SortedPlace(pending, grid, i) ==
    1 + Cardinality({j \in 1..Len(pending) :
            \/ Cardinality(grid[pending[j]]) < Cardinality(grid[pending[i]])
            \/ /\ Cardinality(grid[pending[j]]) = Cardinality(grid[pending[i]])
               /\ j < i})

\* line 147 left out: pending keeps the order it came in.
sort_none(pending, grid) == pending

\* line 147: pending.sort(key=lambda at: len(grid[at]))
sort(pending, grid) ==
    IF pending = <<>> THEN <<>>
    ELSE [place \in 1..Len(pending) |->
            pending[CHOOSE i \in 1..Len(pending) :
                        SortedPlace(pending, grid, i) = place]]

\* lines 155-156 with only the first candidate kept.
shuffled_first(cell) ==
    IF cell = {} THEN {<<>>} ELSE {<<chosen>> : chosen \in cell}

\* lines 155-156: candidates = list(grid[at]); shuffle(candidates)
shuffled(cell) == Orders(cell)

\* lines 159-160 with the assignment left out.
forced_not(grid, i, chosen) == grid

\* lines 159-160: partial = deepcopy(grid); partial[at] = {chosen}
forced(grid, i, chosen) == [grid EXCEPT ![i] = {chosen}]

Depth == Len(frames)

\* A frame of solve that has not bound `at` and `candidates` yet.
NewFrame == [at |-> NoIndex, candidates |-> <<>>, i |-> 0, pc |-> "enter"]

\* solve returns `value`: its frame and its locals (its partial, its unpacked
\* pending) are gone; its arguments stay with the caller.
Return(value) ==
    /\ ret' = value
    /\ frames' = Front(frames)
    /\ grids' = SubSeq(grids, 1, Depth)
    /\ pends' = SubSeq(pends, 1, Depth)

\* line 151 with the whole list kept as the new pending.
rest_whole(pending) == pending

\* line 151: the new list bound to `pending` by at, *pending = pending
rest(pending) == Tail(pending)

\* lines 147-156: sort the caller's list in place, unpack it (or return the
\* grid when it is empty), list and shuffle the candidates.
SolveBegin ==
    /\ frames # <<>>
    /\ frames[Depth].pc = "enter"
    /\ LET pending == sort(pends[Depth], grids[Depth])
       IN  IF pending = <<>>
           THEN Return(Solved(grids[Depth]))
           ELSE \E candidates \in shuffled(grids[Depth][Head(pending)]) :
                   /\ pends' = Append([pends EXCEPT ![Depth] = pending], rest(pending))
                   /\ frames' = [frames EXCEPT ![Depth] =
                                    [at |-> Head(pending), candidates |-> candidates,
                                     i |-> 0, pc |-> "for"]]
                   /\ UNCHANGED <<grids, ret>>
    /\ UNCHANGED <<width, height, gridVars, shuffleVars, propVars, obsVars>>
    /\ UNCHANGED <<rules, grid0, pending0>>

\* lines 159-160 without the deepcopy: partial is the caller's grid itself.
with_partial_aliased(heap, depth, partial) ==
    Append(SubSeq([heap EXCEPT ![depth] = partial], 1, depth), partial)

\* lines 159-160: the grids alive once partial, a deepcopy of the caller's
\* grid with one cell forced, replaces the previous candidate's partial.
with_partial(heap, depth, partial) == Append(SubSeq(heap, 1, depth), partial)

\* lines 158-162 and 171: the next candidate is forced on a fresh copy and
\* propagate is called on it; with no candidate left solve returns None.
SolveFor ==
    /\ frames # <<>>
    /\ frames[Depth].pc = "for"
    /\ LET f == frames[Depth]
       IN  IF f.i >= Len(f.candidates)
           THEN /\ Return(None)
                /\ UNCHANGED propVars
           ELSE LET partial == forced(grids[Depth], f.at, f.candidates[f.i + 1])
                IN  /\ grids' = with_partial(grids, Depth, partial)
                    /\ frames' = [frames EXCEPT ![Depth].i = f.i + 1,
                                                ![Depth].pc = "propagate"]
                    /\ stack' = <<f.at>>
                    /\ ppc' = "while"
                    /\ before' = partial
                    /\ root' = f.at
                    /\ pushes' = 0
                    /\ UNCHANGED <<pends, ret, pat, domain, todo>>
    /\ UNCHANGED <<width, height, gridVars, shuffleVars, obsVars>>
    /\ UNCHANGED <<rules, grid0, pending0>>

\* lines 162-163 with the test dropped: the callback is reached either way.
after_propagate_always(result) == "callback"

\* lines 162-163: where `if not propagate(...): continue` leads
after_propagate(result) == IF result = "True" THEN "callback" ELSE "for"

\* lines 162-163: if not propagate(...): continue
SolveIf ==
    /\ frames # <<>>
    /\ frames[Depth].pc = "if"
    /\ ppc \in {"True", "False"}
    /\ frames' = [frames EXCEPT ![Depth].pc = after_propagate(ppc)]
    /\ oks' = IF ppc = "True" THEN oks + 1 ELSE oks
    /\ ppc' = "idle"
    /\ before' = <<>>
    /\ root' = NoIndex
    /\ pushes' = 0
    /\ UNCHANGED <<stack, pat, domain, todo, calls, seen>>
    /\ UNCHANGED <<width, height, gridVars, shuffleVars>>
    /\ UNCHANGED <<rules, grids, pends, ret, grid0, pending0>>

\* line 165: callback(partial)
Callback ==
    /\ frames # <<>>
    /\ frames[Depth].pc = "callback"
    /\ frames' = [frames EXCEPT ![Depth].pc = "solve"]
    /\ calls' = calls + 1
    /\ seen' = grids[Top]
    /\ oks' = oks
    /\ UNCHANGED <<width, height, gridVars, shuffleVars, propVars>>
    /\ UNCHANGED <<rules, grids, pends, ret, grid0, pending0>>

\* line 167: the call solve(partial, rules, pending, callback)
Recurse ==
    /\ frames # <<>>
    /\ frames[Depth].pc = "solve"
    /\ frames' = Append([frames EXCEPT ![Depth].pc = "returned"], NewFrame)
    /\ UNCHANGED <<width, height, gridVars, shuffleVars, propVars, obsVars>>
    /\ UNCHANGED <<rules, grids, pends, ret, grid0, pending0>>

\* line 167 with the result never taken for a success.
truthy_never(result) == FALSE

\* line 167: the truth value of `solved`: a Grid (no __bool__, no __len__) is
\* true, None is false.
truthy(result) == result.tag = "grid"

\* lines 167-168: if solved := ...: return solved; else the next candidate.
Resume ==
    /\ frames # <<>>
    /\ frames[Depth].pc = "returned"
    /\ IF truthy(ret)
       THEN Return(ret)
       ELSE /\ frames' = [frames EXCEPT ![Depth].pc = "for"]
            /\ ret' = NoRet
            /\ grids' = grids
            /\ pends' = pends
    /\ UNCHANGED <<width, height, gridVars, shuffleVars, propVars, obsVars>>
    /\ UNCHANGED <<rules, grid0, pending0>>

\* ---------------------------------------------------------------- Grid calls

\* Grid(width, height, initialize): the dataclass __init__ has set the three
\* fields, __post_init__ (lines 31-34) fills contents.
GridNew ==
    /\ gpc = "new"
    /\ contents' = PostInit(width, height, initialize)
    /\ gpc' = "ready"
    /\ UNCHANGED <<width, height, initialize, query, yielded>>
    /\ UNCHANGED <<solveVars, propVars, shuffleVars>>

\* list(grid.neighbors_of(at)) for an index of the grid
GridNeighborsOf ==
    /\ gpc = "ready"
    /\ \E i \in DOMAIN contents :
          /\ query' = <<"neighbors_of", i>>
          /\ yielded' = neighbors_of(i)
    /\ UNCHANGED <<width, height, initialize, contents, gpc>>
    /\ UNCHANGED <<solveVars, propVars, shuffleVars>>

\* grid.mangle(x, y), also one step outside the grid on either side
GridMangle ==
    /\ gpc = "ready"
    /\ \E x \in -1..width, y \in -1..height :
          /\ query' = <<"mangle", x, y>>
          /\ yielded' = <<mangle(x, y)>>
    /\ UNCHANGED <<width, height, initialize, contents, gpc>>
    /\ UNCHANGED <<solveVars, propVars, shuffleVars>>

\* grid.unmangle(at) for an index of the grid
GridUnmangle ==
    /\ gpc = "ready"
    /\ \E i \in DOMAIN contents :
          /\ query' = <<"unmangle", i>>
          /\ yielded' = unmangle(i)
    /\ UNCHANGED <<width, height, initialize, contents, gpc>>
    /\ UNCHANGED <<solveVars, propVars, shuffleVars>>

\* grid[at] (__getitem__, line 72) for an index of the grid
GridGetItem ==
    /\ gpc = "ready"
    /\ \E i \in DOMAIN contents :
          /\ query' = <<"getitem", i>>
          /\ yielded' = <<contents[i]>>
    /\ UNCHANGED <<width, height, initialize, contents, gpc>>
    /\ UNCHANGED <<solveVars, propVars, shuffleVars>>

\* has_contradictions(grid)
GridHasContradictions ==
    /\ gpc = "ready"
    /\ query' = <<"has_contradictions">>
    /\ yielded' = <<has_contradictions(contents)>>
    /\ UNCHANGED <<width, height, initialize, contents, gpc>>
    /\ UNCHANGED <<solveVars, propVars, shuffleVars>>

\* is_fully_collapsed(grid)
GridIsFullyCollapsed ==
    /\ gpc = "ready"
    /\ query' = <<"is_fully_collapsed">>
    /\ yielded' = <<is_fully_collapsed(contents)>>
    /\ UNCHANGED <<width, height, initialize, contents, gpc>>
    /\ UNCHANGED <<solveVars, propVars, shuffleVars>>

\* ---------------------------------------------------------------- shuffle

RECURSIVE Sum(_)
Sum(w) == IF w = <<>> THEN 0 ELSE Head(w) + Sum(Tail(w))

\* random.choices(range(len(w)), w) with k = 1: the indices it can return.
\* An index is drawn with probability w[index] / total, so only indices of
\* positive weight are drawn; with a total of zero it raises ValueError
\* (no outcome).
choices(w) ==
    IF Sum(w) <= 0 THEN {}
    ELSE {index \in 0..(Len(w) - 1) : w[index + 1] > 0}

\* lines 10-13, one iteration: draw, yield, zero the weight.
ShuffleYield ==
    /\ spc = "loop"
    /\ round < Len(weights)
    /\ \E index \in choices(weights) :
          /\ emitted' = Append(emitted, index)
          /\ weights' = [weights EXCEPT ![index + 1] = 0]
    /\ round' = round + 1
    /\ spc' = spc
    /\ UNCHANGED <<width, height, gridVars, solveVars, propVars>>

\* line 11: choices raises ValueError, which ends the generator.
ShuffleRaise ==
    /\ spc = "loop"
    /\ round < Len(weights)
    /\ choices(weights) = {}
    /\ spc' = "ValueError"
    /\ UNCHANGED <<weights, emitted, round>>
    /\ UNCHANGED <<width, height, gridVars, solveVars, propVars>>

\* line 10: range(len(weights)) is exhausted, the generator ends.
ShuffleStop ==
    /\ spc = "loop"
    /\ round = Len(weights)
    /\ spc' = "done"
    /\ UNCHANGED <<weights, emitted, round>>
    /\ UNCHANGED <<width, height, gridVars, solveVars, propVars>>

\* ---------------------------------------------------------------- inputs

\* The grid sizes of the solver runs.
Sizes == {wh \in (1..MaxCells) \X (1..MaxCells) : wh[1] * wh[2] <= MaxCells}

\* The grid sizes of the direct propagate runs.
PropSizes ==
    {wh \in (1..MaxPropCells) \X (1..MaxPropCells) : wh[1] * wh[2] <= MaxPropCells}

\* The grid sizes of the Grid-container runs.
GridSizes == (1..MaxSide) \X (1..MaxSide)

\* The rule tables of the runs: every table over the labels.
RuleTables == [Labels -> SUBSET Labels]

\* The pending lists handed to the outermost solve for a grid of n cells:
\* main's list(range(n)), the same reversed, and two that leave cells out.
Pendings(n) == {Range(n), Reverse(Range(n)), Tail(Range(n)), <<>>}

\* The weight lists handed to shuffle_weighted_indices.
WeightLists == UNION {[1..n -> 0..MaxWeight] : n \in 0..MaxLen}

ShuffleIdle ==
    /\ weights = <<>>
    /\ emitted = <<>>
    /\ round = 0
    /\ spc = "idle"

PropIdle ==
    /\ stack = <<>>
    /\ pat = NoIndex
    /\ domain = {}
    /\ todo = <<>>
    /\ ppc = "idle"
    /\ before = <<>>
    /\ root = NoIndex
    /\ pushes = 0

\* The observer has not been called.
ObserverIdle ==
    /\ calls = 0
    /\ seen = <<>>
    /\ oks = 0

SolveIdle ==
    /\ rules = <<>>
    /\ grids = <<>>
    /\ pends = <<>>
    /\ frames = <<>>
    /\ ret = NoRet
    /\ grid0 = <<>>
    /\ pending0 = <<>>
    /\ ObserverIdle

GridIdle ==
    /\ width = 0
    /\ height = 0
    /\ initialize = <<>>
    /\ contents = <<>>
    /\ gpc = "idle"
    /\ query = <<>>
    /\ yielded = <<>>

\* main, lines 195 and 227: grid = Grid(width, height, initialize), then
\* solve(grid, rules, list(range(len(grid.contents))), draw), generalised to
\* the sizes, initialisers, rule tables and pending lists above.
Init ==
    /\ \E wh \in Sizes :
          /\ width = wh[1]
          /\ height = wh[2]
          /\ initialize \in ColumnInitializers(wh[1], wh[2])
    /\ contents = PostInit(width, height, initialize)
    /\ gpc = "ready"
    /\ query = <<>>
    /\ yielded = <<>>
    /\ rules \in RuleTables
    /\ grids = <<contents>>
    /\ pending0 \in Pendings(width * height)
    /\ pends = <<pending0>>
    /\ frames = <<NewFrame>>
    /\ ret = NoRet
    /\ grid0 = contents
    /\ ObserverIdle
    /\ PropIdle
    /\ ShuffleIdle

Next ==
    \/ SolveBegin
    \/ SolveFor
    \/ PropPop
    \/ PropVisit
    \/ SolveIf
    \/ Callback
    \/ Recurse
    \/ Resume

Spec == Init /\ [][Next]_vars

\* The same, run to its end: the interpreter always takes the next step.
SpecFair == Spec /\ WF_vars(Next)

\* propagate called directly on a grid built by any initialiser, from any root.
InitProp ==
    /\ \E wh \in PropSizes :
          /\ width = wh[1]
          /\ height = wh[2]
          /\ initialize \in Initializers(wh[1], wh[2])
    /\ contents = PostInit(width, height, initialize)
    /\ gpc = "ready"
    /\ query = <<>>
    /\ yielded = <<>>
    /\ rules \in RuleTables
    /\ grids = <<contents>>
    /\ pending0 = <<>>
    /\ pends = <<>>
    /\ frames = <<>>
    /\ ret = NoRet
    /\ grid0 = contents
    /\ ObserverIdle
    /\ PropIdle
    /\ ShuffleIdle

NextProp ==
    \/ PropCall
    \/ PropPop
    \/ PropVisit

SpecProp == InitProp /\ [][NextProp]_vars

\* The same, run to its end: the interpreter always takes the next step.
SpecPropFair == SpecProp /\ WF_vars(NextProp)

\* The Grid container: construction, then any of its methods.
InitGrid ==
    /\ \E wh \in GridSizes :
          /\ width = wh[1]
          /\ height = wh[2]
          /\ initialize \in ColumnInitializers(wh[1], wh[2])
    /\ contents = <<>>
    /\ gpc = "new"
    /\ query = <<>>
    /\ yielded = <<>>
    /\ SolveIdle
    /\ PropIdle
    /\ ShuffleIdle

NextGrid ==
    \/ GridNew
    \/ GridNeighborsOf
    \/ GridMangle
    \/ GridUnmangle
    \/ GridGetItem
    \/ GridHasContradictions
    \/ GridIsFullyCollapsed

SpecGrid == InitGrid /\ [][NextGrid]_vars

\* shuffle_weighted_indices consumed to its end (lines 8-9 done).
InitShuffle ==
    /\ weights \in WeightLists
    /\ emitted = <<>>
    /\ round = 0
    /\ spc = "loop"
    /\ GridIdle
    /\ SolveIdle
    /\ PropIdle

NextShuffle ==
    \/ ShuffleYield
    \/ ShuffleRaise
    \/ ShuffleStop

SpecShuffle == InitShuffle /\ [][NextShuffle]_vars

\* ================================================================ claims

Abs(x) == IF x < 0 THEN -x ELSE x

\* The cells of the grid handed to the outermost call.
Cells == DOMAIN grid0

\* c and n are distinct cells whose columns and rows differ by at most one:
\* the in-bounds 8-neighborhood, no wrap.
Adjacent(c, n) ==
    /\ c # n
    /\ Abs((c % width) - (n % width)) <= 1
    /\ Abs((c \div width) - (n \div width)) <= 1

\* The outermost call's pending lists every cell index, each once.
FullPending ==
    /\ Elems(pending0) = Cells
    /\ Len(pending0) = Cardinality(Cells)

\* The outermost solve has returned.
Done == frames = <<>> /\ ret.tag # "running"

\* g is a one-label-per-cell assignment within the given domains that
\* satisfies the rules for every cell/neighbor pair.
IsSolution(s) ==
    /\ \A c \in Cells : s[c] \in grid0[c]
    /\ \A c \in Cells, n \in Cells : Adjacent(c, n) => s[n] \in rules[s[c]]

SolutionExists == \E s \in [Cells -> Labels] : IsSolution(s)

Uniform(dom) == \A c \in Cells : grid0[c] = dom

TableOf(a, b) == [l \in Labels |-> IF l = "A" THEN a ELSE b]

(* C1: when solve is called with pending listing every cell index and      *)
(* returns a grid, every cell and every in-bounds neighbor of it hold one  *)
(* label each, and the neighbor's label is in rules[the cell's label].     *)
AdjacencySatisfaction ==
    (ret.tag = "grid" /\ FullPending) =>
        \A c \in Cells, n \in Cells :
            Adjacent(c, n) =>
                \E lc \in Labels, ln \in Labels :
                    /\ ret.value[c] = {lc}
                    /\ ret.value[n] = {ln}
                    /\ ln \in rules[lc]

\* C1's case: a 3 x 2 grid of undecided cells solved under an asymmetric
\* table, with both labels in the result.
AdjacencyWitness ==
    /\ Done
    /\ ret.tag = "grid"
    /\ FullPending
    /\ width = 3 /\ height = 2
    /\ Uniform(Labels)
    /\ rules = TableOf({"A", "B"}, {"A"})
    /\ \E c \in Cells : ret.value[c] = {"B"}

(* C2, as stated: whenever solve returns a non-null grid, is_fully_collapsed *)
(* is true for that grid.                                                    *)
FullCollapseWhenever ==
    ret.tag = "grid" => is_fully_collapsed(ret.value)

(* C2, amended: whenever solve, called with pending listing every cell    *)
(* index, returns a non-null grid, is_fully_collapsed holds of it and     *)
(* every cell of it has exactly one label.                                *)
FullCollapseOnSuccess ==
    (ret.tag = "grid" /\ FullPending) =>
        /\ is_fully_collapsed(ret.value)
        /\ \A c \in Cells : Cardinality(ret.value[c]) = 1

\* C2's case: a grid of several undecided cells has been solved.
FullCollapseWitness ==
    /\ Done
    /\ ret.tag = "grid"
    /\ FullPending
    /\ Cardinality(Cells) >= 4
    /\ Uniform(Labels)

(* C3: solve, called with pending listing every cell index, returns None  *)
(* exactly when no assignment of one label per cell from the cell's       *)
(* initial domain satisfies the rules for every cell/neighbor pair,       *)
(* whatever the shuffle order.                                            *)
SearchComplete ==
    (Done /\ FullPending) => (ret.tag = "None" <=> ~SolutionExists)

\* C3's case, None: the 2 x 2 grid of undecided cells, whose four cells are
\* pairwise neighbors, under A -> {B}, B -> {A}: both candidates of the first
\* cell were tried and failed.
SearchCompleteWitness ==
    /\ Done
    /\ FullPending
    /\ ret.tag = "None"
    /\ width = 2 /\ height = 2
    /\ Uniform(Labels)
    /\ rules = TableOf({"B"}, {"A"})

\* C3's case, a grid: the same grid under A -> {A}, B -> {}, whose only
\* solution is A everywhere.
SearchCompleteSolved ==
    /\ Done
    /\ FullPending
    /\ ret.tag = "grid"
    /\ width = 2 /\ height = 2
    /\ Uniform(Labels)
    /\ rules = TableOf({"A"}, {})

(* C4: on the 2 x 1 grid with every cell {A} and rule A -> {}, every      *)
(* propagate call returns False leaving an empty domain, solve returns    *)
(* None, and nothing but None or a grid is ever returned.                 *)
ScenarioB ==
    /\ width = 2 /\ height = 1
    /\ Uniform({"A"})
    /\ rules["A"] = {}
    /\ FullPending

ForcedContradiction ==
    ScenarioB =>
        /\ ppc # "True"
        /\ ppc = "False" => has_contradictions(grids[Top])
        /\ ret.tag \in {"running", "None"}
        /\ Done => ret.tag = "None"

\* C4's case: the scenario has run to its end.
ForcedContradictionWitness ==
    /\ ScenarioB
    /\ Done
    /\ ret.tag = "None"

(* C5: on the 4 x 1 grid with every cell {A,B}, rules A -> {B}, B -> {A}  *)
(* and pending listing the four indices, solve never returns None and     *)
(* every grid it returns is [A,B,A,B] or [B,A,B,A].                       *)
ScenarioA ==
    /\ width = 4 /\ height = 1
    /\ Uniform({"A", "B"})
    /\ rules = TableOf({"B"}, {"A"})
    /\ FullPending

ABAB == <<{"A"}, {"B"}, {"A"}, {"B"}>>

BABA == <<{"B"}, {"A"}, {"B"}, {"A"}>>

LinearAlternation ==
    ScenarioA =>
        /\ ret.tag # "None"
        /\ ret.tag = "grid" => iter(ret.value) \in {ABAB, BABA}

\* C5's case: solve returned [B,A,B,A] ...
LinearAlternationWitness ==
    /\ ScenarioA
    /\ Done
    /\ iter(ret.value) = BABA

\* ... and, under another shuffle order, [A,B,A,B].
LinearAlternationOther ==
    /\ ScenarioA
    /\ Done
    /\ iter(ret.value) = ABAB

(* C6: while propagate runs and when it has returned, True or False, each *)
(* cell's domain is a subset of the domain it had when propagate was      *)
(* called.                                                                *)
MonotoneShrink ==
    ppc # "idle" =>
        \A c \in DOMAIN before : grids[Top][c] \subseteq before[c]

\* C6's case: a call that returned True has removed a label from two cells.
MonotoneShrinkWitness ==
    /\ ppc = "True"
    /\ Cardinality({c \in DOMAIN before : grids[Top][c] # before[c]}) >= 2

(* C7: has_contradictions(grid) is true exactly when some cell's domain   *)
(* is empty, and on a grid without an empty domain propagate returns      *)
(* False exactly when has_contradictions holds of the grid afterwards.    *)
ContradictionConsistency ==
    /\ grids # <<>> =>
          (has_contradictions(grids[Top]) <=> \E c \in DOMAIN grids[Top] : grids[Top][c] = {})
    /\ (ppc \in {"True", "False"} /\ \A c \in DOMAIN before : before[c] # {}) =>
          (ppc = "False" <=> has_contradictions(grids[Top]))

\* C7's case: a grid without an empty domain, and propagate returned False
\* after it had shrunk another cell without emptying it.
ContradictionWitness ==
    /\ ppc = "False"
    /\ \A c \in DOMAIN before : before[c] # {}
    /\ \E c \in DOMAIN before : grids[Top][c] # before[c] /\ grids[Top][c] # {}

(* C8: after Grid(width, height, init), the cell at index x + y*width     *)
(* holds init(x, y), for every x in [0, width) and y in [0, height).      *)
GridCreationPlacesInit ==
    gpc = "ready" =>
        \A xy \in Coords(width, height) :
            contents[xy[1] + xy[2] * width] = initialize[xy]

ShufflePermutation ==
    /\ spc # "ValueError"
    /\ spc = "done" =>
          /\ Len(emitted) = Len(weights)
          /\ Elems(emitted) = 0..(Len(weights) - 1)

(* C11: is_fully_collapsed(grid) is true exactly when every cell of the   *)
(* grid has a domain of size 1; it is false for a grid with an empty cell. *)
FullyCollapsedExact ==
    query = <<"is_fully_collapsed">> =>
        (yielded[1] <=> \A c \in DOMAIN contents : Cardinality(contents[c]) = 1)

(* C12: propagate eventually returns, True or False; every push after    *)
(* the initial one comes with a strict shrink of some cell's domain; the   *)
(* number of pushes never exceeds cells x labels.                          *)
PropagateTerminates ==
    /\ <>(ppc \in {"True", "False"})
    /\ [][pushes' = pushes + 1 =>
            \E c \in DOMAIN grids[Top] :
                /\ grids'[Top][c] \subseteq grids[Top][c]
                /\ grids'[Top][c] # grids[Top][c]]_vars
    /\ [](ppc # "idle" =>
            pushes <= Cardinality(DOMAIN before) * Cardinality(Labels))

\* C12's case: a call that returned True after three pushes.
PropagateTerminatesWitness ==
    /\ frames = <<>>
    /\ ppc = "True"
    /\ pushes >= 3

(* C13: for every index i of the grid, mangle(unmangle(i)) = i; for every *)
(* in-range (x, y), mangle(x, y) = x + y*width is an index of the grid and *)
(* unmangle(mangle(x, y)) = (x, y).                                        *)
CoordinateRoundTrip ==
    /\ (Len(query) = 2 /\ query[1] = "unmangle") =>
          /\ yielded[1] \in 0..(width - 1)
          /\ yielded[2] \in 0..(height - 1)
          /\ mangle(yielded[1], yielded[2]) = query[2]
    /\ (/\ Len(query) = 3
        /\ query[1] = "mangle"
        /\ query[2] \in 0..(width - 1)
        /\ query[3] \in 0..(height - 1)) =>
          /\ yielded[1] = query[2] + query[3] * width
          /\ yielded[1] \in 0..(width * height - 1)
          /\ unmangle(yielded[1]) = <<query[2], query[3]>>

\* C13's case: the last cell of a 2x3 grid, index 5, mapped back to (1, 2).
CoordinateRoundTripWitness ==
    /\ width = 2
    /\ height = 3
    /\ query = <<"unmangle", 5>>
    /\ yielded = <<1, 2>>

(* C14: solve never mutates the grid it is given: the grid of every call  *)
(* in progress stays what it was through every step of the candidates     *)
(* tried below it, and the outermost grid stays the initial grid.          *)
BranchIsolation ==
    /\ [](grids # <<>> => grids[1] = grid0)
    /\ [][\A k \in 1..Len(frames) :
            k <= Len(frames') => grids'[k] = grids[k]]_vars

\* C14's case: a nested call forcing its second candidate after its first
\* one was tried and given up.
BranchIsolationWitness ==
    /\ Len(frames) >= 2
    /\ frames[2].i = 2
    /\ frames[2].pc = "propagate"
    /\ grids[3] # grids[2]

(* C15: when propagate returns True, for the changed cell and for every   *)
(* cell whose domain the call shrank, each neighbor's domain is a subset   *)
(* of the union of rules[label] over the labels of that cell's final       *)
(* domain.                                                                 *)
LocalConsistency ==
    ppc = "True" =>
        \A c \in DOMAIN before :
            (c = root \/ grids[Top][c] # before[c]) =>
                \A n \in DOMAIN before :
                    Adjacent(c, n) =>
                        grids[Top][n] \subseteq
                            UNION {rules[label] : label \in grids[Top][c]}

\* C15's case: a call that returned True shrank the changed cell itself and
\* two more cells, none of them to nothing.
LocalConsistencyWitness ==
    /\ ppc = "True"
    /\ frames = <<>>
    /\ grids[Top][root] # before[root]
    /\ Cardinality({c \in DOMAIN before : grids[Top][c] # before[c]}) >= 3
    /\ \A c \in DOMAIN before : grids[Top][c] # {}

(* C16: in every solve call with non-empty pending, the index chosen for  *)
(* branching is one of pending and its domain, in the grid passed to that  *)
(* call, is no larger than the domain of any other index of pending.       *)
MinimumRemainingValues ==
    \A k \in 1..Len(frames) :
        frames[k].pc # "enter" =>
            /\ frames[k].at \in Elems(pends[k])
            /\ \A other \in Elems(pends[k]) :
                  Cardinality(grids[k][frames[k].at]) <=
                      Cardinality(grids[k][other])

\* C16's case: a nested call branches on a cell other than the one that
\* came first in the list it was handed, its domain being strictly smaller.
MinimumRemainingValuesWitness ==
    /\ Len(frames) >= 2
    /\ frames[2].pc = "for"
    /\ Len(pends[1]) >= 3
    /\ frames[2].at # pends[1][2]
    /\ Cardinality(grids[2][frames[2].at]) <
          Cardinality(grids[2][pends[1][2]])

(* C17: the observer is called once for each candidate whose propagation  *)
(* returned True and for no other: after that propagation, before the      *)
(* recursive call, and with the grid that call receives; given an initial  *)
(* grid without empty domains, no observed grid has an empty domain.       *)
ObserverOrdering ==
    /\ [](calls = IF frames # <<>> /\ frames[Depth].pc = "callback"
                  THEN oks - 1 ELSE oks)
    /\ [][calls' # calls =>
            /\ calls' = calls + 1
            /\ oks = calls + 1
            /\ frames[Depth].pc = "callback"
            /\ frames'[Depth].pc = "solve"]_vars
    /\ [][(frames # <<>> /\ Len(frames') > Len(frames)) =>
            /\ calls = oks
            /\ seen = grids'[Len(frames')]]_vars
    /\ []((\A c \in DOMAIN grid0 : grid0[c] # {}) =>
            \A c \in DOMAIN seen : seen[c] # {})

\* C17's case: the outermost call has had its first candidate's propagation
\* return False, unobserved, and has just shown its second candidate's grid.
ObserverOrderingWitness ==
    /\ Depth = 1
    /\ frames[1].pc = "solve"
    /\ frames[1].i = 2
    /\ calls = 1
    /\ oks = 1
    /\ seen = grids[2]
    /\ \A c \in DOMAIN grid0 : grid0[c] # {}

(* C18: once a solve call has returned a solved grid, every step that     *)
(* follows is an enclosing call returning that same grid: no candidate is  *)
(* forced, nothing is propagated and the observer is not called, at any    *)
(* level.                                                                  *)
FirstSuccess ==
    /\ [](ret.tag = "grid" => ppc = "idle")
    /\ [][(ret.tag = "grid" /\ frames # <<>>) =>
            /\ ret' = ret
            /\ frames' = Front(frames)
            /\ calls' = calls
            /\ oks' = oks
            /\ ppc' = ppc]_vars

\* C18's case: a solved grid found three calls down has come back to the
\* outermost call, which still has a candidate it has not tried.
FirstSuccessWitness ==
    /\ Len(frames) = 1
    /\ frames[1].pc = "returned"
    /\ ret.tag = "grid"
    /\ Len(pending0) >= 3
    /\ frames[1].i = 1
    /\ Len(frames[1].candidates) = 2

(* C19: solve eventually returns a grid or None; every call nested below  *)
(* another is handed a pending list one element shorter than its caller's, *)
(* so the calls nested below the outermost one never number more than the  *)
(* length of the initial pending list.                                     *)
SearchTerminates ==
    /\ <>Done
    /\ [](\A k \in 1..Len(pends) : Len(pends[k]) = Len(pending0) - (k - 1))
    /\ [](Depth - 1 <= Len(pending0))

\* C19's case: the search has gone as deep as it can, a call with nothing
\* pending below six that each forced a cell, and earlier backtracked.
SearchTerminatesWitness ==
    /\ Len(pending0) = MaxCells
    /\ Depth = Len(pending0) + 1
    /\ pends[Depth] = <<>>
    /\ frames[1].i = 2

(* C20: solve does not mutate the pending list held by its caller: once   *)
(* the outermost call has returned, the list it was given holds the same   *)
(* indices in the same order as before the call.                           *)
PendingUntouched ==
    Done => pends[1] = pending0

====
